---- MODULE Spec2Model ----
(***************************************************************************)
(* CredExtractor: a scanner that reads .txt files under several candidate  *)
(* encodings, extracts url:username:password triples with one regular      *)
(* expression, filters them by keyword and writes json, csv or txt.        *)
(*                                                                         *)
(* Text is a sequence of code points, a file is a sequence of bytes.       *)
(***************************************************************************)
EXTENDS Integers, Sequences, FiniteSets, TLC

VARIABLES
    pc,                  \* position of main
    ext,                 \* suffix of args.output without its dot, as typed
    rootKind,            \* what args.path resolves to
    output_format,       \* main's output_format once computed
    txt_files,           \* main's txt_files
    scanned,             \* number of calls of search_keywords_in_file so far
    all_search_results,  \* main's all_search_results
    ioFailed,            \* indices of the files whose read hit an I/O error
    out,                 \* the output file: opened or not, and what was written
    exitCode,            \* exit status of the process, -1 while it runs
    outcome,             \* how the run ended
    tpl,                 \* the parts a line under test was written from
    groups,              \* result of CREDENTIAL_PATTERN.search on that line
    mpc                  \* position of the pattern matcher's test

mainVars == <<pc, ext, rootKind, output_format, txt_files, scanned,
              all_search_results, ioFailed, out, exitCode, outcome>>
matchVars == <<tpl, groups, mpc>>
vars == <<mainVars, matchVars>>

(***************************************************************************)
(* Characters                                                              *)
(***************************************************************************)
Ord ==
    "h" :> 104 @@ "t" :> 116 @@ "p" :> 112 @@ "s" :> 115 @@ "H" :> 72 @@
    "T" :> 84 @@ "P" :> 80 @@ "S" :> 83 @@ ":" :> 58 @@ "/" :> 47 @@
    "k" :> 107 @@ "K" :> 75 @@ "x" :> 120 @@ "u" :> 117 @@ "a" :> 97 @@
    "n" :> 110 @@ "o" :> 111 @@ "z" :> 122 @@ "7" :> 55 @@ "8" :> 56 @@
    " " :> 32 @@ "\n" :> 10 @@ "e'" :> 233

Str(s) == [i \in 1..Len(s) |-> Ord[s[i]]]

Colon == 58
Slash == 47
Newline == 10

Max(S) == CHOOSE m \in S : \A n \in S : n <= m
Min(S) == CHOOSE m \in S : \A n \in S : m <= n

\* \s of a str pattern: the Unicode white space
IsSpace(c) ==
    c \in (9..13) \cup (28..32) \cup {133, 160, 5760, 8232, 8233, 8239, 8287, 12288}
           \cup (8192..8202)

\* \d of a str pattern, over the code points below 256
IsDigit(c) == c \in 48..57

\* str.lower(), over the code points below 256
Lower(c) ==
    IF c \in 65..90 \/ (c \in 192..222 /\ c # 215) THEN c + 32 ELSE c

LowerStr(s) == [i \in 1..Len(s) |-> Lower(s[i])]

\* kw in url
Contains(url, kw) ==
    \E i \in 0..(Len(url) - Len(kw)) :
        \A j \in 1..Len(kw) : url[i + j] = kw[j]

\* CREDENTIAL_PATTERN, compiled with re.IGNORECASE:
\*   (https?://[^\s:/]+(?:\:\d+)?(?:/[^\s]*)?):([^:/\s]+):([^/\s]+)
\* Every quantifier is greedy: of the ends a part may take, the matcher keeps
\* the largest from which the rest of the pattern still matches.
HostChar(c) == ~IsSpace(c) /\ c # Colon /\ c # Slash
UserChar(c) == c # Colon /\ c # Slash /\ ~IsSpace(c)
\* a password class that excludes the colon, as the username class does
PassChar_NoColon(c) == c # Colon /\ c # Slash /\ ~IsSpace(c)

PassChar(c) == c # Slash /\ ~IsSpace(c)
PathChar(c) == ~IsSpace(c)

\* under IGNORECASE "s" also matches U+017F
SChars == {115, 83, 383}

\* https?:// starting at s: the positions of its last character
SchemeEnds(line, s) ==
    { e \in {s + 6, s + 7} :
        /\ e <= Len(line)
        /\ Lower(line[s]) = 104 /\ Lower(line[s + 1]) = 116
        /\ Lower(line[s + 2]) = 116 /\ Lower(line[s + 3]) = 112
        /\ (e = s + 7 => line[s + 4] \in SChars)
        /\ line[e - 2] = Colon /\ line[e - 1] = Slash /\ line[e] = Slash }

\* [^\s:/]+ after position a
HostEnds(line, a) ==
    { e \in (a + 1)..Len(line) : \A i \in (a + 1)..e : HostChar(line[i]) }

\* (?:\:\d+)? after position h
PortEnds(line, h) ==
    {h} \cup { e \in (h + 2)..Len(line) :
                 line[h + 1] = Colon /\ \A i \in (h + 2)..e : IsDigit(line[i]) }

\* (?:/[^\s]*)? after position p
PathEnds(line, p) ==
    {p} \cup { e \in (p + 1)..Len(line) :
                 line[p + 1] = Slash /\ \A i \in (p + 2)..e : PathChar(line[i]) }

\* :([^:/\s]+) after position u
UserEnds(line, u) ==
    { e \in (u + 2)..Len(line) :
        line[u + 1] = Colon /\ \A i \in (u + 2)..e : UserChar(line[i]) }

\* :([^/\s]+) after position e
PassEnds(line, e) ==
    { x \in (e + 2)..Len(line) :
        line[e + 1] = Colon /\ \A i \in (e + 2)..x : PassChar(line[i]) }

TailMatches(line, u) == \E e \in UserEnds(line, u) : PassEnds(line, e) # {}
PathMatches(line, p) == \E q \in PathEnds(line, p) : TailMatches(line, q)
PortMatches(line, h) == \E p \in PortEnds(line, h) : PathMatches(line, p)

\* the hosts from which a whole match exists, the pattern starting at s
GoodHosts(line, s) ==
    UNION { { h \in HostEnds(line, a) : PortMatches(line, h) } :
            a \in SchemeEnds(line, s) }

\* the three groups of the match starting at s; GoodHosts(line, s) is not empty
GroupsAt(line, s) ==
    LET h  == Max(GoodHosts(line, s))
        p  == Max({ x \in PortEnds(line, h) : PathMatches(line, x) })
        q  == Max({ x \in PathEnds(line, p) : TailMatches(line, x) })
        ue == Max({ x \in UserEnds(line, q) : PassEnds(line, x) # {} })
        pe == Max(PassEnds(line, ue))
    IN  << SubSeq(line, s, q), SubSeq(line, q + 2, ue), SubSeq(line, ue + 2, pe) >>

\* CREDENTIAL_PATTERN.search(line): <<>> for None, else match.groups()
Search(line) ==
    LET starts == { s \in 1..Len(line) : GoodHosts(line, s) # {} }
    IN  IF starts = {} THEN <<>> ELSE GroupsAt(line, Min(starts))

(***************************************************************************)
(* Lines put to the pattern: prefix url:username:password suffix            *)
(***************************************************************************)
Prefixes == { <<>>, Str(<<"x", " ">>) }
Schemes  == { Str(<<"h","t","t","p",":","/","/">>),
              Str(<<"H","T","T","P","S",":","/","/">>) }
Hosts    == { Str(<<"k">>) }
Ports    == { <<>>, Str(<<":","8">>) }
Paths    == { <<>>, Str(<<"/","a">>) }
Users    == { Str(<<"u">>), Str(<<"7">>) }
Passes   == { Str(<<"p">>), Str(<<"p",":","s">>), Str(<<"p",":","s",":","s">>) }
Suffixes == { <<>>, Str(<<"/","z">>), Str(<<" ","z">>), Str(<<"\n">>) }

Templates ==
    [ prefix : Prefixes, scheme : Schemes, host : Hosts, port : Ports,
      path : Paths, user : Users, pass : Passes, suffix : Suffixes ]

Render(t) ==
    t.prefix \o t.scheme \o t.host \o t.port \o t.path
        \o <<Colon>> \o t.user \o <<Colon>> \o t.pass \o t.suffix

NoTemplate == [ prefix |-> <<>>, scheme |-> <<>>, host |-> <<>>, port |-> <<>>,
                path |-> <<>>, user |-> <<>>, pass |-> <<>>, suffix |-> <<>> ]

\* the pattern matcher's test is not running
MatchIdle == tpl = NoTemplate /\ groups = <<>> /\ mpc = "idle"

(***************************************************************************)
(* Decoding: file_path.open('r', encoding=encoding) and iteration over f   *)
(*                                                                         *)
(* A decoder gives the characters decoded before any error, each with the  *)
(* index of its last byte, and errAt, the index of the byte at which it    *)
(* raises UnicodeDecodeError: 0 when it does not, Len(bytes) + 1 when it   *)
(* raises at the final call, at end of file, on an incomplete sequence.    *)
(***************************************************************************)
\* number of continuation bytes after lead byte b, -1 when b starts nothing
Utf8Trail(b) ==
    IF b < 128 THEN 0
    ELSE IF b \in 194..223 THEN 1
    ELSE IF b \in 224..239 THEN 2
    ELSE IF b \in 240..244 THEN 3
    ELSE -1

\* c is acceptable as the j-th continuation byte after lead byte b
ContOK(b, j, c) ==
    IF j > 1 THEN c \in 128..191
    ELSE IF b = 224 THEN c \in 160..191
    ELSE IF b = 237 THEN c \in 128..159
    ELSE IF b = 240 THEN c \in 144..191
    ELSE IF b = 244 THEN c \in 128..143
    ELSE c \in 128..191

Utf8Point(bytes, i, n) ==
    IF n = 0 THEN bytes[i]
    ELSE IF n = 1 THEN (bytes[i] - 192) * 64 + (bytes[i + 1] - 128)
    ELSE IF n = 2 THEN (bytes[i] - 224) * 4096 + (bytes[i + 1] - 128) * 64
                         + (bytes[i + 2] - 128)
    ELSE (bytes[i] - 240) * 262144 + (bytes[i + 1] - 128) * 4096
             + (bytes[i + 2] - 128) * 64 + (bytes[i + 3] - 128)

RECURSIVE Utf8From(_, _, _)
Utf8From(bytes, i, acc) ==
    IF i > Len(bytes) THEN [chars |-> acc, errAt |-> 0]
    ELSE LET n   == Utf8Trail(bytes[i])
             bad == { j \in 1..n : i + j > Len(bytes) \/ ~ContOK(bytes[i], j, bytes[i + j]) }
         IN  IF n = -1 THEN [chars |-> acc, errAt |-> i]
             ELSE IF bad # {} THEN
                 [chars |-> acc,
                  errAt |-> IF i + Min(bad) > Len(bytes) THEN Len(bytes) + 1
                            ELSE i + Min(bad)]
             ELSE Utf8From(bytes, i + n + 1,
                           Append(acc, [c |-> Utf8Point(bytes, i, n), end |-> i + n]))

\* ISO-8859-1 maps every byte to the code point of the same value
Latin1(bytes) ==
    [chars |-> [i \in 1..Len(bytes) |-> [c |-> bytes[i], end |-> i]], errAt |-> 0]

Utf16Unit(bytes, i, be) ==
    IF be THEN bytes[i] * 256 + bytes[i + 1] ELSE bytes[i + 1] * 256 + bytes[i]

RECURSIVE Utf16From(_, _, _, _)
Utf16From(bytes, i, be, acc) ==
    IF i > Len(bytes) THEN [chars |-> acc, errAt |-> 0]
    ELSE IF i = Len(bytes) THEN [chars |-> acc, errAt |-> Len(bytes) + 1]
    ELSE LET u == Utf16Unit(bytes, i, be)
         IN  IF u \notin 55296..57343 THEN
                 Utf16From(bytes, i + 2, be, Append(acc, [c |-> u, end |-> i + 1]))
             ELSE IF u >= 56320 THEN [chars |-> acc, errAt |-> i + 1]
             ELSE IF i + 3 > Len(bytes) THEN [chars |-> acc, errAt |-> Len(bytes) + 1]
             ELSE LET v == Utf16Unit(bytes, i + 2, be)
                  IN  IF v \in 56320..57343 THEN
                          Utf16From(bytes, i + 4, be,
                              Append(acc, [c |-> 65536 + (u - 55296) * 1024 + (v - 56320),
                                           end |-> i + 3]))
                      ELSE [chars |-> acc, errAt |-> i + 3]

\* the utf-16 codec: a byte order mark chooses the order, little endian without
Utf16(bytes) ==
    IF Len(bytes) >= 2 /\ bytes[1] = 255 /\ bytes[2] = 254
        THEN Utf16From(bytes, 3, FALSE, <<>>)
    ELSE IF Len(bytes) >= 2 /\ bytes[1] = 254 /\ bytes[2] = 255
        THEN Utf16From(bytes, 3, TRUE, <<>>)
    ELSE Utf16From(bytes, 1, FALSE, <<>>)

Decode(bytes, enc) ==
    CASE enc = "utf-8"      -> Utf8From(bytes, 1, <<>>)
      [] enc = "ISO-8859-1" -> Latin1(bytes)
      [] enc = "utf-16"     -> Utf16(bytes)

\* The text layer reads the file in chunks of ChunkSize bytes (8192 in the
\* library, scaled down here) and decodes each chunk as it is read: the lines
\* that end in a chunk are handed out before the next chunk is decoded.
ChunkSize == 16

ChunkOf(i) == (i - 1) \div ChunkSize

\* the read at which the decoder raises; the read after the last chunk is the
\* final one, which finds the end of the file
ErrChunk(bytes, d) ==
    IF d.errAt > Len(bytes) THEN (Len(bytes) + ChunkSize - 1) \div ChunkSize
    ELSE ChunkOf(d.errAt)

\* text cut after each newline; what follows the last newline is a line only
\* at the end of the file
RECURSIVE SplitLines(_, _)
SplitLines(t, atEof) ==
    LET NL == { i \in 1..Len(t) : t[i] = Newline }
    IN  IF t = <<>> THEN <<>>
        ELSE IF NL = {} THEN (IF atEof THEN <<t>> ELSE <<>>)
        ELSE <<SubSeq(t, 1, Min(NL))>>
                 \o SplitLines(SubSeq(t, Min(NL) + 1, Len(t)), atEof)

BeforeChunk(chars, k) ==
    IF chars = <<>> THEN <<>>
    ELSE LET n == Max({0} \cup { i \in 1..Len(chars) : ChunkOf(chars[i].end) < k })
         IN  SubSeq(chars, 1, n)

\* one pass over the file under one encoding: the lines the loop body sees,
\* and whether the pass ends in UnicodeDecodeError
ReadAttempt(bytes, enc) ==
    LET d     == Decode(bytes, enc)
        avail == IF d.errAt = 0 THEN d.chars
                 ELSE BeforeChunk(d.chars, ErrChunk(bytes, d))
    IN  [ lines       |-> SplitLines([i \in 1..Len(avail) |-> avail[i].c], d.errAt = 0),
          decodeError |-> d.errAt # 0 ]

(***************************************************************************)
(* search_keywords_in_file                                                 *)
(***************************************************************************)
encodings_to_try == <<"utf-8", "ISO-8859-1", "utf-16">>

MatchRecord(g, src, n) ==
    [url |-> g[1], username |-> g[2], password |-> g[3], source |-> src, line |-> n]

IsError(r) == "error" \in DOMAIN r

ErrorsIn(results) == \E i \in 1..Len(results) : IsError(results[i])

\* any(keyword.lower() in url.lower() for keyword in keywords)
KeywordHit(url, keywords) ==
    \E k \in 1..Len(keywords) : Contains(LowerStr(url), LowerStr(keywords[k]))

\* the records the loop body appends for lines 1..n
RECURSIVE LineRecords(_, _, _, _)
LineRecords(lines, n, src, keywords) ==
    IF n = 0 THEN <<>>
    ELSE LET g == Search(lines[n])
         IN  LineRecords(lines, n - 1, src, keywords)
                 \o (IF g # <<>> /\ KeywordHit(g[1], keywords)
                     THEN <<MatchRecord(g, src, n)>> ELSE <<>>)

\* An I/O error other than a decode error: in the attempt under
\* encodings_to_try[enc], raised by open (line = 0) or by the read that follows
\* the line-th line.  enc = 0: none.
NoFault == [enc |-> 0, line |-> 0]

FaultHits(r, k, fault) == fault.enc = k /\ fault.line <= Len(r.lines)

\* the error record appended to what was collected
IOErrorResult_KeepsCollected(collected, enc, src) ==
    collected \o << [error |-> <<"Error reading file with encoding", enc>>, source |-> src] >>

\* except Exception: return the error record alone
IOErrorResult(collected, enc, src) ==
    << [error |-> <<"Error reading file with encoding", enc>>, source |-> src] >>

\* for ... else: no encoding was left
ExhaustedResult(collected, src) ==
    << [error |-> <<"Could not read with available encodings">>, source |-> src] >>

\* the attempts from encodings_to_try[k] on; search_results holds `collected`
RECURSIVE Attempt(_, _, _, _, _, _)
Attempt(bytes, src, keywords, fault, k, collected) ==
    LET enc == encodings_to_try[k]
        r   == ReadAttempt(bytes, enc)
    IN  IF FaultHits(r, k, fault) THEN
            IOErrorResult(collected \o LineRecords(r.lines, fault.line, src, keywords),
                          enc, src)
        ELSE LET seen == collected \o LineRecords(r.lines, Len(r.lines), src, keywords)
             IN  IF ~r.decodeError THEN seen
                 ELSE IF k < Len(encodings_to_try)
                     THEN Attempt(bytes, src, keywords, fault, k + 1, seen)
                 ELSE ExhaustedResult(seen, src)

search_keywords_in_file(file, src, keywords, fault) ==
    Attempt(file.bytes, src, keywords, fault, 1, <<>>)

(***************************************************************************)
(* save_results                                                            *)
(***************************************************************************)
fieldnames == <<"url", "username", "password", "source", "line">>

\* writer.writerow(result): the values in the order of fieldnames
CsvRow(r) == [i \in 1..Len(fieldnames) |-> r[fieldnames[i]]]

\* the f-string of the txt format
TxtLine(r) ==
    << "URL: ", r.url, ", Username: ", r.username, ", Password: ", r.password,
       ", Source: ", r.source, ", Line: ", r.line, "\n" >>

\* if "error" not in result
NotError(r) == ~IsError(r)

\* writing stops at the first error record
WithoutErrors_StopsAtError(results) ==
    LET E == { i \in 1..Len(results) : IsError(results[i]) }
    IN  IF E = {} THEN results ELSE SubSeq(results, 1, Min(E) - 1)

WithoutErrors(results) == SelectSeq(results, NotError)

\* what a write that runs to its end puts in the file, piece by piece
Pieces(results, format) ==
    CASE format = "json" -> results
      [] format = "csv"  ->
            LET kept == WithoutErrors(results)
            IN  <<fieldnames>> \o [i \in 1..Len(kept) |-> CsvRow(kept[i])]
      [] format = "txt"  ->
            LET kept == WithoutErrors(results)
            IN  [i \in 1..Len(kept) |-> TxtLine(kept[i])]
      [] OTHER -> <<>>

\* A failure of the write: "open" when the file cannot be opened, "write"
\* when it fails after `done` pieces.  Both are caught inside save_results.
NoWriteFault == [kind |-> "none", done |-> 0]

save_results(results, format, wf) ==
    IF format \notin {"json", "csv", "txt"} THEN [opened |-> FALSE, rows |-> <<>>]
    ELSE IF wf.kind = "open" THEN [opened |-> FALSE, rows |-> <<>>]
    ELSE IF wf.kind = "write" THEN
        [opened |-> TRUE, rows |-> SubSeq(Pieces(results, format), 1, wf.done)]
    ELSE [opened |-> TRUE, rows |-> Pieces(results, format)]

(***************************************************************************)
(* The files a scan may find.  A file is its bytes; `written` and `text`   *)
(* record how the file was produced and are read by no operation.  No file *)
(* holds a carriage return, so newline translation changes nothing.        *)
(***************************************************************************)
EncodeUtf8(text) ==
    LET One(c) == IF c < 128 THEN <<c>> ELSE <<192 + (c \div 64), 128 + (c % 64)>>
        F[i \in 0..Len(text)] == IF i = 0 THEN <<>> ELSE F[i - 1] \o One(text[i])
    IN  F[Len(text)]

EncodeLatin1(text) == text

\* the utf-16 codec writes a byte order mark, then little-endian units
EncodeUtf16(text) ==
    LET F[i \in 0..Len(text)] ==
            IF i = 0 THEN <<255, 254>> ELSE F[i - 1] \o <<text[i] % 256, text[i] \div 256>>
    IN  F[Len(text)]

Encode(text, enc) ==
    CASE enc = "utf-8"      -> EncodeUtf8(text)
      [] enc = "ISO-8859-1" -> EncodeLatin1(text)
      [] enc = "utf-16"     -> EncodeUtf16(text)

CredLine  == Str(<<"h","t","t","p",":","/","/","k",":","u",":","p","\n">>)
OtherLine == Str(<<"h","t","t","p",":","/","/","x",":","u",":","p","\n">>)
PlainLine == Str(<<"n","o","\n">>)
AccentLine == Str(<<"e'","\n">>)

TextOne     == CredLine
TextMixed   == PlainLine \o CredLine \o OtherLine \o CredLine
TextAccent  == CredLine \o AccentLine
TextLong    == CredLine \o PlainLine \o AccentLine \o CredLine

MkFile(text, enc) == [bytes |-> Encode(text, enc), written |-> enc, text |-> text]

FileSet ==
    { MkFile(TextOne, "utf-8"), MkFile(TextMixed, "utf-8"),
      MkFile(TextAccent, "utf-8"), MkFile(TextAccent, "ISO-8859-1"),
      MkFile(TextLong, "ISO-8859-1"), MkFile(TextOne, "utf-16"),
      \* a UTF-8 file cut in the middle of a two-byte character
      [bytes |-> EncodeUtf8(TextOne) \o <<195>>, written |-> "damaged", text |-> TextOne] }

MaxFiles == 2
MaxFaultLine == 1

FileLists == UNION { [1..n -> FileSet] : n \in 0..MaxFiles }

Faults == {NoFault} \cup [enc : 1..Len(encodings_to_try), line : 0..MaxFaultLine]

\* --keywords
Keywords == << Str(<<"K">>) >>

\* the I/O error of `fault` is raised while `bytes` is read
ReadFails(bytes, fault) ==
    /\ fault.enc \in 1..Len(encodings_to_try)
    /\ \A j \in 1..(fault.enc - 1) : ReadAttempt(bytes, encodings_to_try[j]).decodeError
    /\ FaultHits(ReadAttempt(bytes, encodings_to_try[fault.enc]), fault.enc, fault)

(***************************************************************************)
(* main                                                                    *)
(***************************************************************************)
Exts == {"json", "CSV", "txt", "xml"}

\* output_path.suffix.lstrip('.').lower()
LowerExt(e) == IF e = "CSV" THEN "csv" ELSE e

RootKinds == {"txtfile", "otherfile", "dir", "missing"}

\* input(...).strip().lower()
Answers == {"y", " Y", "n", "N ", "no"}
StripLower(a) ==
    CASE a \in {"y", " Y"} -> "y"
      [] a \in {"n", "N "} -> "n"
      [] OTHER -> a

Init ==
    /\ pc = "validate"
    /\ ext \in Exts
    /\ rootKind \in RootKinds
    /\ output_format = ""
    /\ txt_files = <<>>
    /\ scanned = 0
    /\ all_search_results = <<>>
    /\ ioFailed = {}
    /\ out = [opened |-> FALSE, rows |-> <<>>]
    /\ exitCode = -1
    /\ outcome = "running"
    /\ MatchIdle

\* sys.exit(code)
Exit(code, how) ==
    /\ pc' = "exit"
    /\ exitCode' = code
    /\ outcome' = how

\* validate_output_path up to the prompt, and main's handling of ValueError
ValidateOutput ==
    /\ pc = "validate"
    /\ \E path \in {"dir", "file", "free", "noparent"} :
        \/ /\ path \in {"dir", "noparent"}
           /\ Exit(1, "bad_output_path")
        \/ /\ path = "file"
           /\ pc' = "prompt"
           /\ UNCHANGED <<exitCode, outcome>>
        \/ /\ path = "free"
           /\ pc' = "format"
           /\ UNCHANGED <<exitCode, outcome>>
    /\ UNCHANGED <<ext, rootKind, output_format, txt_files, scanned,
                   all_search_results, ioFailed, out, matchVars>>

\* one turn of the overwrite prompt; any other answer asks again
Prompt ==
    /\ pc = "prompt"
    /\ \E a \in Answers :
        \/ /\ StripLower(a) = "y"
           /\ pc' = "format"
           /\ UNCHANGED <<exitCode, outcome>>
        \/ /\ StripLower(a) = "n"
           /\ Exit(0, "cancelled")
        \/ /\ StripLower(a) \notin {"y", "n"}
           /\ UNCHANGED <<pc, exitCode, outcome>>
    /\ UNCHANGED <<ext, rootKind, output_format, txt_files, scanned,
                   all_search_results, ioFailed, out, matchVars>>

\* every format passes the check
FormatSupported_Any(format) == TRUE

\* output_format in {'json', 'csv', 'txt'}
FormatSupported(format) == format \in {"json", "csv", "txt"}

\* lines 163-167
CheckFormat ==
    /\ pc = "format"
    /\ output_format' = LowerExt(ext)
    /\ IF ~FormatSupported(LowerExt(ext))
           THEN Exit(1, "config_error")
           ELSE pc' = "discover" /\ UNCHANGED <<exitCode, outcome>>
    /\ UNCHANGED <<ext, rootKind, txt_files, scanned, all_search_results,
                   ioFailed, out, matchVars>>

\* lines 169-182
Discover ==
    /\ pc = "discover"
    /\ \/ /\ rootKind = "txtfile"
          /\ \E f \in FileSet : txt_files' = <<f>>
          /\ pc' = "scan"
          /\ UNCHANGED <<exitCode, outcome>>
       \/ /\ rootKind = "dir"
          /\ \E fs \in FileLists :
              /\ txt_files' = fs
              /\ IF fs = <<>> THEN Exit(0, "empty")
                 ELSE pc' = "scan" /\ UNCHANGED <<exitCode, outcome>>
       \/ /\ rootKind \notin {"txtfile", "dir"}
          /\ Exit(1, "config_error")
          /\ UNCHANGED txt_files
    /\ UNCHANGED <<ext, rootKind, output_format, scanned, all_search_results,
                   ioFailed, out, matchVars>>

\* all_search_results.extend(results)
Extend(results_so_far, results) == results_so_far \o results

\* the loop ends at the first file that returns an error record
AfterFile_StopsOnError(n, results) ==
    IF n = Len(txt_files) \/ ErrorsIn(results) THEN "save" ELSE "scan"

\* the loop goes on to the next file whatever the last one returned
AfterFile(n, results) == IF n = Len(txt_files) THEN "save" ELSE "scan"

\* one turn of the loop over txt_files
ScanFile ==
    /\ pc = "scan"
    /\ scanned < Len(txt_files)
    /\ \E fault \in Faults :
        LET i       == scanned + 1
            results == search_keywords_in_file(txt_files[i], i, Keywords, fault)
        IN  /\ all_search_results' = Extend(all_search_results, results)
            /\ scanned' = i
            /\ ioFailed' = IF ReadFails(txt_files[i].bytes, fault)
                           THEN ioFailed \cup {i} ELSE ioFailed
            /\ pc' = AfterFile(i, results)
    /\ UNCHANGED <<ext, rootKind, output_format, txt_files, out, exitCode,
                   outcome, matchVars>>

WriteFaults(results, format) ==
    {NoWriteFault, [kind |-> "open", done |-> 0]}
        \cup [kind : {"write"}, done : 0..(Len(Pieces(results, format)) - 1)]

\* the exit status after save_results has returned
StatusAfterSave(wf) == 0

\* save_results(...), the closing print, and the end of main
Save ==
    /\ pc = "save"
    /\ \E wf \in WriteFaults(all_search_results, output_format) :
        /\ out' = save_results(all_search_results, output_format, wf)
        /\ Exit(StatusAfterSave(wf), IF wf = NoWriteFault THEN "saved" ELSE "write_failed")
    /\ UNCHANGED <<ext, rootKind, output_format, txt_files, scanned,
                   all_search_results, ioFailed, matchVars>>

Next == ValidateOutput \/ Prompt \/ CheckFormat \/ Discover \/ ScanFile \/ Save

Spec == Init /\ [][Next]_vars

(***************************************************************************)
(* The pattern matcher on one line (search_keywords_in_file, lines 50-52)   *)
(***************************************************************************)
MainIdle ==
    /\ pc = "idle" /\ ext = "" /\ rootKind = "" /\ output_format = ""
    /\ txt_files = <<>> /\ scanned = 0 /\ all_search_results = <<>>
    /\ ioFailed = {} /\ out = [opened |-> FALSE, rows |-> <<>>]
    /\ exitCode = -1 /\ outcome = "running"

InitMatch ==
    /\ MainIdle
    /\ tpl \in Templates
    /\ groups = <<>>
    /\ mpc = "line"

\* match = CREDENTIAL_PATTERN.search(line); match.groups()
Extract ==
    /\ mpc = "line"
    /\ groups' = Search(Render(tpl))
    /\ mpc' = "matched"
    /\ UNCHANGED <<tpl, mainVars>>

NextMatch == Extract

SpecMatch == InitMatch /\ [][NextMatch]_vars

(***************************************************************************)
(* Properties                                                              *)
(***************************************************************************)
\* the records file number i contributed to all_search_results
RecordsOf(i) == SelectSeq(all_search_results, LAMBDA r : r.source = i)

MatchesOf(results) == SelectSeq(results, LAMBDA r : "url" \in DOMAIN r)
ErrorsOf(results) == SelectSeq(results, LAMBDA r : "error" \in DOMAIN r)

\* the attempts that end without a decode error
GoodAttempts(bytes) ==
    { k \in 1..Len(encodings_to_try) : ~ReadAttempt(bytes, encodings_to_try[k]).decodeError }

\* the lines of the pass that succeeds
FinalLines(bytes) == ReadAttempt(bytes, encodings_to_try[Min(GoodAttempts(bytes))]).lines

\* line is a credential line whose URL holds a keyword
Wanted(line) == Search(line) # <<>> /\ KeywordHit(Search(line)[1], Keywords)

WantedLines(lines) == { n \in 1..Len(lines) : Wanted(lines[n]) }

\* an attempt before the successful one failed after it had met a wanted line
FailedPartway(bytes) ==
    \E k \in 1..(Min(GoodAttempts(bytes)) - 1) :
        WantedLines(ReadAttempt(bytes, encodings_to_try[k]).lines) # {}

\* C1: when an attempt fails to decode after lines were read and matched, what
\* it collected is dropped: the file's records are those of the successful pass
\* and no line gives more than one record.
C1_AllOrNothing ==
    \A i \in 1..scanned :
        (i \notin ioFailed /\ FailedPartway(txt_files[i].bytes)) =>
            LET rs == RecordsOf(i)
            IN  /\ \A a, b \in 1..Len(rs) : a # b => rs[a].line # rs[b].line
                /\ Len(rs) = Cardinality(WantedLines(FinalLines(txt_files[i].bytes)))

\* C2: a file that fails to read gives exactly one ErrorRecord, every other
\* file gives the records it gives when nothing fails, and the loop reaches
\* every discovered file.
C2_FailureIsolation ==
    /\ \A i \in 1..scanned :
        IF i \in ioFailed
            THEN Len(RecordsOf(i)) = 1 /\ IsError(RecordsOf(i)[1])
            ELSE RecordsOf(i) = search_keywords_in_file(txt_files[i], i, Keywords, NoFault)
    /\ \A j \in 1..Len(all_search_results) : all_search_results[j].source \in 1..scanned
    /\ (pc = "save" \/ outcome \in {"saved", "write_failed"}) => scanned = Len(txt_files)

\* two files were scanned, one failed with an I/O error, the other gave matches
C2_Witness ==
    /\ pc = "save"
    /\ \E i, j \in 1..scanned :
        /\ i < j /\ i \in ioFailed /\ j \notin ioFailed
        /\ MatchesOf(RecordsOf(j)) # <<>>

\* C3: what one file contributes is either MatchRecords only or one
\* ErrorRecord only.
C3_NeverMixed ==
    \A i \in 1..scanned :
        LET rs == RecordsOf(i)
        IN  \/ ErrorsOf(rs) = <<>>
            \/ Len(rs) = 1 /\ IsError(rs[1])

\* a file whose first attempt collected a match before it failed to decode,
\* and whose second attempt hit an I/O error
C3_Witness ==
    \E i \in 1..scanned :
        /\ i \in ioFailed
        /\ FailedPartway(txt_files[i].bytes)
        /\ RecordsOf(i) = IOErrorResult(<<>>, "ISO-8859-1", i)

\* the number of wanted lines of a text
CredCount(text) == Cardinality(WantedLines(SplitLines(text, TRUE)))

\* C4: a file written in UTF-8, Latin-1 or UTF-16 that holds one credential
\* line is read in its own encoding and gives one MatchRecord with its path.
C4_EveryEncodingRead ==
    \A i \in 1..scanned :
        LET f == txt_files[i]
        IN  ( /\ i \notin ioFailed
              /\ \E k \in 1..Len(encodings_to_try) : f.written = encodings_to_try[k]
              /\ CredCount(f.text) = 1 ) =>
            /\ Len(RecordsOf(i)) = 1
            /\ ~IsError(RecordsOf(i)[1])

\* C5: a readable file with N wanted lines gives N MatchRecords, one for each
\* wanted line, with that line's number.
C5_OneRecordPerLine ==
    \A i \in 1..scanned :
        i \notin ioFailed =>
            LET rs == RecordsOf(i)
                W  == WantedLines(FinalLines(txt_files[i].bytes))
            IN  /\ Len(rs) = Cardinality(W)
                /\ \A n \in W : Cardinality({ a \in 1..Len(rs) : rs[a].line = n }) = 1

\* C6: the result is ordered by file, and inside a file by line number.
C6_Ordered ==
    \A a, b \in 1..Len(all_search_results) :
        a < b =>
            LET r1 == all_search_results[a]
                r2 == all_search_results[b]
            IN  \/ r1.source < r2.source
                \/ /\ r1.source = r2.source
                   /\ ~IsError(r1) /\ ~IsError(r2)
                   /\ r1.line < r2.line

\* the rows of a csv file after its header, the lines of a txt file
DataRows == IF output_format = "csv" THEN Tail(out.rows) ELSE out.rows

\* the five values a written row or line carries
FieldsOf(row) ==
    IF output_format = "csv" THEN row
    ELSE <<row[2], row[4], row[6], row[8], row[10]>>

\* C7: a csv or txt write that runs to its end holds one row for every
\* MatchRecord, in the order of the result, and none for an ErrorRecord; csv
\* starts with the header.
C7_OnlyMatchesWritten ==
    (pc = "exit" /\ outcome = "saved" /\ output_format \in {"csv", "txt"}) =>
        LET ms == MatchesOf(all_search_results)
        IN  /\ output_format = "csv" =>
                /\ out.rows # <<>>
                /\ Head(out.rows) = <<"url", "username", "password", "source", "line">>
            /\ Len(DataRows) = Len(ms)
            /\ \A k \in 1..Len(ms) :
                FieldsOf(DataRows[k]) =
                    <<ms[k].url, ms[k].username, ms[k].password, ms[k].source, ms[k].line>>

\* a csv file written from a result where an ErrorRecord comes before a
\* MatchRecord
C7_Witness ==
    /\ pc = "exit" /\ outcome = "saved" /\ output_format = "csv"
    /\ \E a, b \in 1..Len(all_search_results) :
        a < b /\ IsError(all_search_results[a]) /\ ~IsError(all_search_results[b])

\* C8: the exit status tells a configuration error, a write error and a
\* successful run apart.
C8_DistinctExitSignals ==
    pc = "exit" =>
        /\ outcome = "saved" => exitCode = 0
        /\ outcome = "config_error" => exitCode # 0
        /\ outcome = "write_failed" => exitCode # 0 /\ exitCode # 1

\* the arguments hold a configuration error
ConfigBad ==
    \/ LowerExt(ext) \notin {"json", "csv", "txt"}
    \/ rootKind \notin {"txtfile", "dir"}

\* C9 as stated: a run whose arguments hold a configuration error exits
\* non-zero, having scanned no file and not opened the output.
C9_FatalNonZero ==
    (pc = "exit" /\ ConfigBad) =>
        exitCode # 0 /\ scanned = 0 /\ ~out.opened

\* C9 amended: such a run scans no file and does not open the output, and it
\* exits non-zero unless the user declined the overwrite prompt.
C9_FatalBeforeWork ==
    /\ ConfigBad => scanned = 0 /\ ~out.opened
    /\ (pc = "exit" /\ ConfigBad) => (exitCode # 0 \/ outcome = "cancelled")
    /\ (pc = "exit" /\ outcome = "cancelled") => exitCode = 0

\* the run was stopped by the format check of an .xml output
C9_Witness ==
    /\ pc = "exit" /\ ext = "xml" /\ outcome = "config_error"
    /\ exitCode = 1 /\ scanned = 0 /\ ~out.opened

HasColon(s) == \E i \in 1..Len(s) : s[i] = Colon
AllDigits(s) == \A i \in 1..Len(s) : IsDigit(s[i])

\* C10 as stated: of a line whose password holds a colon, the pattern gives the
\* username and the whole password, with or without :port and /path.
C10_PasswordWhole ==
    (mpc = "matched" /\ HasColon(tpl.pass)) =>
        /\ groups # <<>>
        /\ groups[2] = tpl.user
        /\ groups[3] = tpl.pass

\* C10 amended: the same when the URL has no /path and the username is not
\* made of digits alone, or follows an explicit :port.
C10_PasswordWholeNoPath ==
    ( /\ mpc = "matched" /\ HasColon(tpl.pass)
      /\ tpl.path = <<>>
      /\ (tpl.port # <<>> \/ ~AllDigits(tpl.user)) ) =>
        /\ groups # <<>>
        /\ groups[1] = tpl.scheme \o tpl.host \o tpl.port
        /\ groups[2] = tpl.user
        /\ groups[3] = tpl.pass

\* a line with a port, no path and a password with two colons was matched
C10_Witness ==
    /\ mpc = "matched"
    /\ tpl.port # <<>> /\ tpl.path = <<>>
    /\ Len(tpl.pass) = 5 /\ HasColon(tpl.pass)
    /\ groups # <<>> /\ groups[3] = tpl.pass

====
